---- MODULE Spec2Model ----
(***************************************************************************)
(* A model of twitter_bot.py (class TwitterBot): the cursor file           *)
(* validation_data/last_seen_tweet_id.txt, the quota file                  *)
(* validation_data/users_data.json, the operations of the class on them,   *)
(* and the pure text functions validate_input and get_params_from_tweet.   *)
(*                                                                         *)
(* Three specifications:                                                   *)
(*   Spec      one bot instance, every method call runs to completion      *)
(*   ConcSpec  two bot processes sharing the quota file, file accesses of  *)
(*             update_validation_data interleaved                          *)
(*   TextSpec  the pure text functions applied to bounded inputs           *)
(***************************************************************************)
EXTENDS Integers, Sequences, FiniteSets, TLC

VARIABLES
    cursorFile,     \* last_seen_tweet_id.txt: [exists, text]
    quotaFile,      \* users_data.json: [st, data, size]
    op,             \* name of the method that ran last ("" before any call)
    raised,         \* whether that call ended in an exception
    argUser,        \* its user_id argument ("" if none)
    retId,          \* <<n>> when get_last_seen_tweet_id returned n, else <<>>
    retValid,       \* "True"/"False" as returned by validate_user, else "-"
    retMentions,    \* what get_mentions returned: "-", "empty" ([], []), "data"
    lastApi,        \* how the platform API answered that call ("-" if it was not called)
    loggedError,    \* whether that call wrote a logging.error line
    since_ids,      \* since_id of the mention queries sent since the last store (last two)
    lastStored,     \* <<X>> for the X of the latest store_last_seen_tweet_id, else <<>>
    quota0,         \* the quota file as it was at start
    calls,          \* per user: completed update_validation_data calls
    rejected,       \* users for whom validate_user has returned False
    pc,             \* ConcSpec: per process, position inside update_validation_data
    users_data,     \* ConcSpec: per process, the dict loaded at line 117
    target,         \* ConcSpec: per process, the user_id of the running call
    overlap,        \* ConcSpec: whether two invocations have ever overlapped
    tweet_text,     \* TextSpec: the text argument
    params_dict,    \* TextSpec: sequence of <<param, values>> in insertion order
    required_input, \* TextSpec: [type, str, list]
    params,         \* TextSpec: the dict returned by get_params_from_tweet
    valid           \* TextSpec: "True"/"False"/"None" returned by validate_input, "-" before

fileVars == <<cursorFile, quotaFile>>
callVars == <<op, raised, argUser, retId, retValid, retMentions, lastApi, loggedError>>
ghostVars == <<since_ids, lastStored, quota0, calls, rejected>>
procVars == <<pc, users_data, target, overlap>>
textVars == <<tweet_text, params_dict, required_input, params, valid>>
vars == <<fileVars, callVars, ghostVars, procVars, textVars>>

(***************************************************************************)
(* Bounds and input sets                                                   *)
(***************************************************************************)
MaxCount == 6          \* update_validation_data is not called past this count
MaxTextLen == 2        \* longest tweet text in TextSpec
MaxValues == 2         \* longest allowed-value list in TextSpec
MaxCalls == 5          \* ConcSpec: update_validation_data calls started in all

Users == {"u1", "u2"}
Procs == {"p1", "p2"}
IdSet == {-12, 0, 7, 105}

(***************************************************************************)
(* Text: a string is a sequence of one-character strings                   *)
(***************************************************************************)
Digits == <<"0", "1", "2", "3", "4", "5", "6", "7", "8", "9">>
DigitChars == {Digits[i] : i \in 1..10}
DigitVal(c) == (CHOOSE i \in 1..10 : Digits[i] = c) - 1

\* str(n) for an int n
RECURSIVE IntToStr(_)
IntToStr(n) ==
    IF n < 0 THEN <<"-">> \o IntToStr(-n)
    ELSE IF n < 10 THEN <<Digits[n + 1]>>
    ELSE IntToStr(n \div 10) \o <<Digits[(n % 10) + 1]>>

IsSpace(c) == c \in {" ", "\n"}

RECURSIVE LStrip(_)
LStrip(s) == IF s # <<>> /\ IsSpace(Head(s)) THEN LStrip(Tail(s)) ELSE s

RECURSIVE RStrip(_)
RStrip(s) ==
    IF s # <<>> /\ IsSpace(s[Len(s)]) THEN RStrip(SubSeq(s, 1, Len(s) - 1)) ELSE s

\* s.strip()
Strip(s) == RStrip(LStrip(s))

\* the literal without its optional sign
Unsigned(s) == IF s # <<>> /\ Head(s) \in {"+", "-"} THEN Tail(s) ELSE s

\* whether int(s) accepts s: optional sign, digits, single underscores between digits
IsIntLiteral(s) ==
    LET b == Unsigned(Strip(s)) IN
    /\ b # <<>>
    /\ \A i \in 1..Len(b) :
          \/ b[i] \in DigitChars
          \/ /\ b[i] = "_"
             /\ 1 < i /\ i < Len(b)
             /\ b[i - 1] \in DigitChars
             /\ b[i + 1] \in DigitChars

RECURSIVE DigitsValue(_)
DigitsValue(b) ==
    IF b = <<>> THEN 0
    ELSE LET l == b[Len(b)]
             r == SubSeq(b, 1, Len(b) - 1)
         IN IF l = "_" THEN DigitsValue(r) ELSE DigitsValue(r) * 10 + DigitVal(l)

\* int(s) for an accepted s
ParseInt(s) ==
    LET t == Strip(s) IN
    IF Head(t) = "-" THEN -DigitsValue(Tail(t)) ELSE DigitsValue(Unsigned(t))

(***************************************************************************)
(* Files                                                                   *)
(***************************************************************************)
NoFile == [exists |-> FALSE, text |-> <<>>]
FileOf(s) == [exists |-> TRUE, text |-> s]

\* contents the cursor file may have at start
CursorInit ==
    { NoFile, FileOf(<<>>), FileOf(<<"x">>), FileOf(<<"3", " ", "4">>),
      FileOf(<<" ", "7", "\n">>), FileOf(<<"+", "4">>), FileOf(<<"1", "_", "0">>),
      FileOf(<<"-", "1", "2">>) }

NoRec == -1
NoData == [u \in Users |-> NoRec]
\* the quota file holding json.dumps(d); size is the length of its text, counted
\* in records (user ids are equally long and the counts have one digit)
QuotaOf(d) ==
    [st |-> "ok", data |-> d, size |-> Cardinality({ u \in Users : d[u] # NoRec })]
\* a quota file that json.loads rejects
Garbled(n) == [st |-> "malformed", data |-> NoData, size |-> n]
QuotaInit ==
    { [st |-> "missing", data |-> NoData, size |-> 0], Garbled(1) }
    \cup { QuotaOf(d) : d \in [Users -> {NoRec, 4}] }

\* open(path, "w"); f.write(s)
WriteAppending(old, s) == FileOf(old.text \o s)
WriteFile(old, s) == FileOf(s)


(***************************************************************************)
(* Quota store                                                             *)
(***************************************************************************)
\* json.loads(f.read()) of the quota file: fails when the file is missing or no JSON
LoadLenient(f) == [ok |-> TRUE, data |-> f.data]
LoadUsersData(f) == [ok |-> f.st = "ok", data |-> f.data]

\* int(user_requests) >= 5
LimitReachedAbove(user_requests) == user_requests > 5
LimitReached(user_requests) == user_requests >= 5

\* the value validate_user returns for a loaded dict
ValidateResult(d, user_id) ==
    IF d[user_id] # NoRec
    THEN IF LimitReached(d[user_id]) THEN "False" ELSE "True"
    ELSE "True"

\* the dict update_validation_data writes back
IncrementedAlone(d, user_id) ==
    IF d[user_id] # NoRec
    THEN [d EXCEPT ![user_id] = @ + 1]
    ELSE [u \in Users |-> IF u = user_id THEN 1 ELSE NoRec]
IncrementedReset(d, user_id) ==
    IF d[user_id] # NoRec /\ d[user_id] < 5
    THEN [d EXCEPT ![user_id] = @ + 1]
    ELSE [d EXCEPT ![user_id] = 1]
Incremented(d, user_id) ==
    IF d[user_id] # NoRec
    THEN [d EXCEPT ![user_id] = @ + 1]
    ELSE [d EXCEPT ![user_id] = 1]

(***************************************************************************)
(* Platform API                                                            *)
(***************************************************************************)
\* get_users_mentions: answers with mentions and users, raises, or answers
\* without an includes["users"] entry
MentionsApi == {"ok", "fail", "no_users"}
CallApi == {"ok", "fail"}

\* the try/except of get_mentions around the API call and the response fields
MentionsOutcomeUncaught(api) ==
    IF api = "ok" THEN [raised |-> FALSE, ret |-> "data", error |-> FALSE]
    ELSE IF api = "fail" THEN [raised |-> TRUE, ret |-> "-", error |-> FALSE]
    ELSE [raised |-> FALSE, ret |-> "empty", error |-> TRUE]
MentionsOutcome(api) ==
    IF api = "ok" THEN [raised |-> FALSE, ret |-> "data", error |-> FALSE]
    ELSE [raised |-> FALSE, ret |-> "empty", error |-> TRUE]

(***************************************************************************)
(* One bot instance: each method call is one step                          *)
(***************************************************************************)
Returned(name, user, r, id, v, m, api, err) ==
    /\ op' = name
    /\ argUser' = user
    /\ raised' = r
    /\ retId' = id
    /\ retValid' = v
    /\ retMentions' = m
    /\ lastApi' = api
    /\ loggedError' = err

CursorReadable == cursorFile.exists /\ IsIntLiteral(cursorFile.text)

Pushed(ids, s) == IF ids = <<>> THEN <<s>> ELSE <<ids[Len(ids)], s>>

get_last_seen_tweet_id ==
    /\ IF CursorReadable
       THEN Returned("get_last_seen_tweet_id", "", FALSE,
                     <<ParseInt(cursorFile.text)>>, "-", "-", "-", FALSE)
       ELSE Returned("get_last_seen_tweet_id", "", TRUE, <<>>, "-", "-", "-", FALSE)
    /\ UNCHANGED <<fileVars, ghostVars, procVars, textVars>>

store_last_seen_tweet_id(last_seen_tweet_id) ==
    /\ cursorFile' = WriteFile(cursorFile, IntToStr(last_seen_tweet_id))
    /\ Returned("store_last_seen_tweet_id", "", FALSE, <<>>, "-", "-", "-", FALSE)
    /\ lastStored' = <<last_seen_tweet_id>>
    /\ since_ids' = <<>>
    /\ UNCHANGED <<quotaFile, quota0, calls, rejected, procVars, textVars>>

validate_user(user_id) ==
    LET loaded == LoadUsersData(quotaFile) IN
    /\ IF loaded.ok
       THEN /\ Returned("validate_user", user_id, FALSE, <<>>,
                        ValidateResult(loaded.data, user_id), "-", "-", FALSE)
            /\ rejected' = IF ValidateResult(loaded.data, user_id) = "False"
                           THEN rejected \cup {user_id} ELSE rejected
       ELSE /\ Returned("validate_user", user_id, TRUE, <<>>, "-", "-", "-", FALSE)
            /\ rejected' = rejected
    /\ UNCHANGED <<fileVars, since_ids, lastStored, quota0, calls, procVars, textVars>>

update_validation_data(user_id) ==
    LET loaded == LoadUsersData(quotaFile) IN
    /\ quotaFile.data[user_id] < MaxCount
    /\ IF loaded.ok
       THEN /\ quotaFile' = QuotaOf(Incremented(loaded.data, user_id))
            /\ calls' = [calls EXCEPT ![user_id] = @ + 1]
            /\ Returned("update_validation_data", user_id, FALSE, <<>>, "-", "-", "-", FALSE)
       ELSE /\ UNCHANGED <<quotaFile, calls>>
            /\ Returned("update_validation_data", user_id, TRUE, <<>>, "-", "-", "-", FALSE)
    /\ UNCHANGED <<cursorFile, since_ids, lastStored, quota0, rejected, procVars, textVars>>

\* the calls of get_mentions: the cursor read of line 135 is outside the try
MentionsCall(api) ==
    IF CursorReadable
    THEN /\ Returned("get_mentions", "", MentionsOutcome(api).raised, <<>>, "-",
                     MentionsOutcome(api).ret, api, MentionsOutcome(api).error)
         /\ since_ids' = Pushed(since_ids, ParseInt(cursorFile.text))
    ELSE /\ Returned("get_mentions", "", TRUE, <<>>, "-", "-", "-", FALSE)
         /\ since_ids' = since_ids

get_mentions_advancing ==
    \E api \in MentionsApi :
        /\ MentionsCall(api)
        /\ cursorFile' = IF CursorReadable /\ api = "ok"
                         THEN WriteFile(cursorFile, IntToStr(ParseInt(cursorFile.text) + 1))
                         ELSE cursorFile
        /\ UNCHANGED <<quotaFile, lastStored, quota0, calls, rejected, procVars, textVars>>
get_mentions ==
    \E api \in MentionsApi :
        /\ MentionsCall(api)
        /\ UNCHANGED <<fileVars, lastStored, quota0, calls, rejected, procVars, textVars>>

fetch_tweets(user_id) ==
    \E api \in CallApi :
        /\ Returned("fetch_tweets", user_id, api = "fail", <<>>, "-", "-", api, FALSE)
        /\ UNCHANGED <<fileVars, ghostVars, procVars, textVars>>

preprocess_and_tokenize_tweets ==
    /\ Returned("preprocess_and_tokenize_tweets", "", FALSE, <<>>, "-", "-", "-", FALSE)
    /\ UNCHANGED <<fileVars, ghostVars, procVars, textVars>>

reply_with_limit_reached(user_screen_name) ==
    \E api \in CallApi :
        /\ Returned("reply_with_limit_reached", user_screen_name, api = "fail",
                    <<>>, "-", "-", api, FALSE)
        /\ UNCHANGED <<fileVars, ghostVars, procVars, textVars>>

bot_handler ==
    /\ Returned("bot_handler", "", FALSE, <<>>, "-", "-", "-", FALSE)
    /\ UNCHANGED <<fileVars, ghostVars, procVars, textVars>>

NoCall ==
    /\ op = "" /\ raised = FALSE /\ argUser = ""
    /\ retId = <<>> /\ retValid = "-" /\ retMentions = "-"
    /\ lastApi = "-" /\ loggedError = FALSE

ProcInit ==
    /\ pc = [p \in Procs |-> "idle"]
    /\ users_data = [p \in Procs |-> NoData]
    /\ target = [p \in Procs |-> ""]
    /\ overlap = FALSE

TextIdle ==
    /\ tweet_text = <<>>
    /\ params_dict = <<>>
    /\ required_input = [type |-> "none", str |-> <<>>, list |-> <<>>]
    /\ params = <<>>
    /\ valid = "-"

Init ==
    /\ cursorFile \in CursorInit
    /\ quotaFile \in QuotaInit
    /\ quota0 = quotaFile
    /\ calls = [u \in Users |-> 0]
    /\ rejected = {}
    /\ since_ids = <<>>
    /\ lastStored = <<>>
    /\ NoCall
    /\ ProcInit
    /\ TextIdle

Next ==
    \/ get_last_seen_tweet_id
    \/ \E X \in IdSet : store_last_seen_tweet_id(X)
    \/ \E u \in Users : validate_user(u)
    \/ \E u \in Users : update_validation_data(u)
    \/ get_mentions
    \/ \E u \in Users : fetch_tweets(u)
    \/ preprocess_and_tokenize_tweets
    \/ \E u \in Users : reply_with_limit_reached(u)
    \/ bot_handler

Spec == Init /\ [][Next]_vars


(***************************************************************************)
(* Properties of one bot instance (Spec)                                   *)
(***************************************************************************)
Fresh(u) == quota0.st = "ok" /\ quota0.data[u] = NoRec

\* C1: for a user with no record at start, validate_user returns True exactly
\* while fewer than 5 update_validation_data calls for that user have completed.
C1_ValidUntilFifth ==
    (op = "validate_user" /\ ~raised /\ Fresh(argUser))
        => (retValid = IF calls[argUser] < 5 THEN "True" ELSE "False")

C1_Witness ==
    /\ op = "validate_user" /\ ~raised /\ Fresh(argUser)
    /\ calls[argUser] = 5 /\ retValid = "False"

\* C2: get_last_seen_tweet_id returns the X of the latest
\* store_last_seen_tweet_id, whatever the file held before and whatever ran between.
C2_RoundTrip ==
    (op = "get_last_seen_tweet_id" /\ lastStored # <<>>)
        => (~raised /\ retId = lastStored)

C2_Witness ==
    /\ op = "get_last_seen_tweet_id" /\ lastStored = <<-12>> /\ retId = <<-12>>
    /\ quotaFile # quota0 /\ since_ids # <<>>

\* C3 as stated: get_mentions never raises; on any failure of the cycle, a failed
\* cursor read included, it logs an error and returns ([], []).
C3_NeverPropagates ==
    op = "get_mentions"
        => /\ ~raised
           /\ (~CursorReadable \/ lastApi # "ok")
                 => (retMentions = "empty" /\ loggedError)

\* C3 amended: get_mentions raises exactly when the cursor read before the try
\* block fails; with a readable cursor every failure of the API call or of the
\* response is logged as an error and answered with ([], []).
C3_CatchesApiFailures ==
    op = "get_mentions"
        => /\ raised <=> ~CursorReadable
           /\ raised => (lastApi = "-" /\ retMentions = "-")
           /\ (~raised /\ lastApi # "ok") => (retMentions = "empty" /\ loggedError)
           /\ (~raised /\ lastApi = "ok") => (retMentions = "data" /\ ~loggedError)

C3_Witness ==
    /\ op = "get_mentions" /\ lastApi = "fail"
    /\ ~raised /\ retMentions = "empty" /\ loggedError

C7_ErrorsPropagate ==
    [][ /\ op' = "get_last_seen_tweet_id"
              => (raised' <=> ~(cursorFile.exists /\ IsIntLiteral(cursorFile.text)))
        /\ op' \in {"validate_user", "update_validation_data"}
              => (raised' <=> quotaFile.st # "ok")
        /\ op' \in {"fetch_tweets", "reply_with_limit_reached"}
              => (raised' <=> lastApi' = "fail")
        /\ (raised' /\ op' # "get_mentions")
              => (cursorFile' = cursorFile /\ quotaFile' = quotaFile /\ calls' = calls)
      ]_vars

C7_Witness ==
    /\ op = "update_validation_data" /\ raised
    /\ quotaFile.st = "malformed" /\ lastStored # <<>>

\* C10: only store_last_seen_tweet_id changes the cursor file; get_mentions reads
\* it and leaves it, so two queries with no store between carry the same since_id;
\* validate_user and get_last_seen_tweet_id leave the quota file alone.
C10_CursorFrame ==
    [][ /\ cursorFile' # cursorFile => op' = "store_last_seen_tweet_id"
        /\ op' \in {"validate_user", "get_last_seen_tweet_id"} => quotaFile' = quotaFile
        /\ (op' = "get_mentions" /\ Len(since_ids') = 2)
              => since_ids'[1] = since_ids'[2]
      ]_vars

C10_Witness ==
    /\ op = "get_mentions" /\ retMentions = "data"
    /\ Len(since_ids) = 2 /\ since_ids[2] = 105


(***************************************************************************)
(* Text functions                                                          *)
(***************************************************************************)
Chars == {"a", "A", "b"}
ParamNames == {"mode", "color"}
ValueSet == { <<"a">>, <<"A">>, <<"b">>, <<"a", "b">> }

SeqsUpTo(S, n) == UNION { [1..k -> S] : k \in 0..n }
Texts == SeqsUpTo(Chars, MaxTextLen)
ValueLists == SeqsUpTo(ValueSet, MaxValues)

\* dicts of at most two parameters, as their items in insertion order
ParamsDicts ==
    { <<>> }
    \cup { <<[param |-> p, values |-> l]>> : p \in ParamNames, l \in ValueLists }
    \cup UNION { { <<[param |-> p, values |-> l], [param |-> q, values |-> m]>> :
                       q \in ParamNames \ {p}, l \in ValueLists, m \in ValueLists } :
                   p \in ParamNames }

RequiredInputs ==
    { [type |-> "none", str |-> <<>>, list |-> <<>>] }
    \cup { [type |-> "str", str |-> v, list |-> <<>>] : v \in ValueSet \cup {<<>>} }
    \cup { [type |-> "list", str |-> <<>>, list |-> l] : l \in ValueLists }
Unset == [type |-> "unset", str |-> <<>>, list |-> <<>>]

\* c.lower()
LowerChar(c) == IF c = "A" THEN "a" ELSE IF c = "B" THEN "b" ELSE c
\* s.lower()
Lower(s) == [i \in 1..Len(s) |-> LowerChar(s[i])]

\* value in text, for two strings
IsSubstring(value, text) ==
    \E i \in 0..(Len(text) - Len(value)) : SubSeq(text, i + 1, i + Len(value)) = value

\* x in l, for a list l
InList(x, l) == \E i \in 1..Len(l) : l[i] = x

\* the inner loop of get_params_from_tweet: <<value>> at the break, <<>> if none
RECURSIVE LastMatch(_, _)
LastMatch(values, text) ==
    IF values = <<>> THEN <<>>
    ELSE IF IsSubstring(values[Len(values)], text) THEN <<values[Len(values)]>>
    ELSE LastMatch(SubSeq(values, 1, Len(values) - 1), text)
RECURSIVE FirstMatch(_, _)
FirstMatch(values, text) ==
    IF values = <<>> THEN <<>>
    ELSE IF IsSubstring(Head(values), text) THEN <<Head(values)>>
    ELSE FirstMatch(Tail(values), text)

\* d[k] = v on a dict d
Put(d, k, v) == [x \in (DOMAIN d) \cup {k} |-> IF x = k THEN v ELSE d[x]]

\* the outer loop of get_params_from_tweet over the items still to visit
RECURSIVE ScanParams(_, _, _)
ScanParams(items, text, found) ==
    IF items = <<>> THEN found
    ELSE LET m == FirstMatch(Head(items).values, text) IN
         ScanParams(Tail(items), text,
                    IF m # <<>> THEN Put(found, Head(items).param, m[1]) ELSE found)

\* the loop of validate_input over a list: the test is r_input in required_input
RECURSIVE ListLoop(_, _)
ListLoop(rest, all) ==
    IF rest = <<>> THEN "False"
    ELSE IF InList(Head(rest), all) THEN "True"
    ELSE ListLoop(Tail(rest), all)

ValidateInputResult(ri, text) ==
    IF ri.type = "list" THEN ListLoop(ri.list, ri.list)
    ELSE IF ri.type = "str" THEN (IF IsSubstring(ri.str, Lower(text)) THEN "True" ELSE "False")
    ELSE "None"

get_params_from_tweet ==
    /\ op = "" /\ required_input = Unset
    /\ params' = ScanParams(params_dict, Lower(tweet_text), <<>>)
    /\ op' = "get_params_from_tweet"
    /\ UNCHANGED <<fileVars, raised, argUser, retId, retValid, retMentions, lastApi,
                   loggedError, ghostVars, procVars, tweet_text, params_dict,
                   required_input, valid>>

validate_input ==
    /\ op = "" /\ required_input # Unset
    /\ valid' = ValidateInputResult(required_input, tweet_text)
    /\ op' = "validate_input"
    /\ UNCHANGED <<fileVars, raised, argUser, retId, retValid, retMentions, lastApi,
                   loggedError, ghostVars, procVars, tweet_text, params_dict,
                   required_input, params>>

FilesIdle ==
    /\ cursorFile = NoFile
    /\ quotaFile = QuotaOf(NoData)
    /\ quota0 = quotaFile
    /\ calls = [u \in Users |-> 0]
    /\ rejected = {}
    /\ since_ids = <<>>
    /\ lastStored = <<>>

TextInit ==
    /\ FilesIdle
    /\ NoCall
    /\ ProcInit
    /\ tweet_text \in Texts
    /\ \/ params_dict \in ParamsDicts /\ required_input = Unset
       \/ params_dict = <<>> /\ required_input \in RequiredInputs
    /\ params = <<>>
    /\ valid = "-"

TextNext == get_params_from_tweet \/ validate_input

TextSpec == TextInit /\ [][TextNext]_vars

(***************************************************************************)
(* Properties of the text functions (TextSpec)                             *)
(***************************************************************************)
\* positions of the allowed values of an item that occur in the lower-cased text
Occurring(item) ==
    { i \in 1..Len(item.values) : IsSubstring(item.values[i], Lower(tweet_text)) }

Least(S) == CHOOSE i \in S : \A j \in S : i <= j

\* C5: the result's keys are exactly the parameters with an allowed value
\* occurring in the lower-cased text, each mapped to the earliest listed such
\* value; nothing matching gives the empty mapping.
C5_FirstListedValue ==
    op = "get_params_from_tweet"
        => /\ DOMAIN params =
                 { params_dict[k].param :
                      k \in { j \in 1..Len(params_dict) : Occurring(params_dict[j]) # {} } }
           /\ \A k \in 1..Len(params_dict) :
                 Occurring(params_dict[k]) # {}
                    => params[params_dict[k].param] =
                          params_dict[k].values[Least(Occurring(params_dict[k]))]

C5_Witness ==
    /\ op = "get_params_from_tweet"
    /\ Len(params_dict) = 2
    /\ Cardinality(Occurring(params_dict[1])) = 2
    /\ params_dict[1].values[1] # params_dict[1].values[2]
    /\ Occurring(params_dict[2]) = {}
    /\ params_dict[2].values # <<>>
    /\ DOMAIN params = {params_dict[1].param}

\* C6 as stated: an allowed value is found whenever its lower-cased form occurs
\* in the lower-cased text, in whatever case the value is written.
C6_CaseInsensitive ==
    op = "get_params_from_tweet"
        => \A k \in 1..Len(params_dict) :
              (\E i \in 1..Len(params_dict[k].values) :
                  IsSubstring(Lower(params_dict[k].values[i]), Lower(tweet_text)))
                 => params_dict[k].param \in DOMAIN params

\* C9 as stated: for a non-empty list none of whose strings occurs in the
\* lower-cased text validate_input returns False; for a single string it returns
\* True exactly when the string occurs in the lower-cased text.
C9_ValidateInput ==
    op = "validate_input"
        => /\ ( /\ required_input.type = "list"
                /\ required_input.list # <<>>
                /\ \A i \in 1..Len(required_input.list) :
                      ~IsSubstring(required_input.list[i], Lower(tweet_text)) )
                 => valid = "False"
           /\ required_input.type = "str"
                 => (valid = "True" <=> IsSubstring(required_input.str, Lower(tweet_text)))


(***************************************************************************)
(* Two bot processes sharing the quota file                                *)
(***************************************************************************)
Started ==
    LET RECURSIVE Sum(_)
        Sum(S) == IF S = {} THEN 0
                  ELSE LET u == CHOOSE x \in S : TRUE IN calls[u] + Sum(S \ {u})
    IN Sum(Users) + Cardinality({ q \in Procs : pc[q] # "idle" })

\* lines 116-117: open(..., "r") and json.loads(f.read())
LoadQuota(p, user_id) ==
    LET loaded == LoadUsersData(quotaFile) IN
    /\ pc[p] = "idle"
    /\ Started < MaxCalls
    /\ IF loaded.ok
       THEN /\ users_data' = [users_data EXCEPT ![p] = loaded.data]
            /\ target' = [target EXCEPT ![p] = user_id]
            /\ pc' = [pc EXCEPT ![p] = "loaded"]
            /\ overlap' = (overlap \/ \E q \in Procs \ {p} : pc[q] # "idle")
            /\ UNCHANGED callVars
       ELSE /\ Returned("update_validation_data", user_id, TRUE, <<>>, "-", "-", "-", FALSE)
            /\ UNCHANGED procVars
    /\ UNCHANGED <<fileVars, ghostVars, textVars>>

\* line 123: open(..., "w") empties the file
OpenQuotaForWrite(p) ==
    /\ pc[p] = "loaded"
    /\ quotaFile' = Garbled(0)
    /\ pc' = [pc EXCEPT ![p] = "opened"]
    /\ UNCHANGED <<cursorFile, callVars, ghostVars, users_data, target, overlap, textVars>>

\* the file after a process that opened it at offset 0 writes new_file: text that
\* another writer put there meanwhile survives past the end of the new text
Overwritten(old, new_file) ==
    IF new_file.size >= old.size THEN new_file ELSE Garbled(old.size)

\* lines 118-122 applied to the loaded dict, line 124 and the close of the file
DumpQuota(p) ==
    /\ pc[p] = "opened"
    /\ quotaFile' = Overwritten(quotaFile, QuotaOf(Incremented(users_data[p], target[p])))
    /\ calls' = [calls EXCEPT ![target[p]] = @ + 1]
    /\ pc' = [pc EXCEPT ![p] = "idle"]
    /\ users_data' = [users_data EXCEPT ![p] = NoData]
    /\ target' = [target EXCEPT ![p] = ""]
    /\ Returned("update_validation_data", target[p], FALSE, <<>>, "-", "-", "-", FALSE)
    /\ UNCHANGED <<cursorFile, since_ids, lastStored, quota0, rejected, overlap, textVars>>

\* validate_user called by a process that is not inside update_validation_data
ValidateByIdle(user_id) ==
    /\ \E p \in Procs : pc[p] = "idle"
    /\ validate_user(user_id)

ConcInit ==
    /\ cursorFile = NoFile
    /\ quotaFile \in { QuotaOf(d) : d \in [Users -> {NoRec, 4}] }
    /\ quota0 = quotaFile
    /\ calls = [u \in Users |-> 0]
    /\ rejected = {}
    /\ since_ids = <<>>
    /\ lastStored = <<>>
    /\ NoCall
    /\ ProcInit
    /\ TextIdle

ConcNext ==
    \/ \E p \in Procs, u \in Users : LoadQuota(p, u)
    \/ \E p \in Procs : OpenQuotaForWrite(p)
    \/ \E p \in Procs : DumpQuota(p)
    \/ \E u \in Users : ValidateByIdle(u)

ConcSpec == ConcInit /\ [][ConcNext]_vars

(***************************************************************************)
(* Properties of two processes (ConcSpec)                                  *)
(***************************************************************************)
Count(d, u) == IF d[u] = NoRec THEN 0 ELSE d[u]

\* C8: the stored count of a user never exceeds its count at start plus the
\* completed update_validation_data calls, equals it as long as no two
\* invocations have overlapped, and falls short of it once they have (the
\* witness: five completed calls, stored count 4, validate_user still True).
C8_LostUpdate ==
    quotaFile.st = "ok"
        => \A u \in Users :
              /\ Count(quotaFile.data, u) <= Count(quota0.data, u) + calls[u]
              /\ (~overlap /\ calls[u] > 0)
                    => quotaFile.data[u] = Count(quota0.data, u) + calls[u]
              /\ (~overlap /\ calls[u] = 0) => quotaFile.data[u] = quota0.data[u]

C8_Witness ==
    /\ overlap
    /\ \A p \in Procs : pc[p] = "idle"
    /\ op = "validate_user" /\ ~raised /\ retValid = "True"
    /\ Fresh(argUser)
    /\ calls[argUser] = 5
    /\ quotaFile.data[argUser] = 4

====
